---- MODULE Spec2Model ----
(***************************************************************************)
(* Model of the OAuth broker of the Tanda Workforce MCP server:            *)
(* the session store and authorization-code store of OAuthManager          *)
(* (auth/oauth.ts), the OAuth routes of server/app.ts that drive them      *)
(* (/authorize, /auth/login, /auth/callback, /token, /auth/logout), the    *)
(* two periodic sweeps, and the bearer-token middleware                    *)
(* (auth/middleware.ts).                                                   *)
(*                                                                         *)
(* Node runs every handler to its next await without interleaving, so an   *)
(* action is one synchronous stretch of a handler.  The callback handler   *)
(* has two awaits (the upstream token exchange and the identity fetch);    *)
(* it is modelled as a process with a position.                            *)
(*                                                                         *)
(* Encoding: 0 stands for undefined/absent in every optional field and     *)
(* request parameter.  A request parameter that is the empty string takes  *)
(* the same branches as an absent one (all tests are truthiness tests),    *)
(* so both are 0 here.  Times are milliseconds as in Date.now().           *)
(***************************************************************************)
EXTENDS Integers, Sequences, FiniteSets, Bags, TLC

\* ------------------------------------------------------------------ bounds
MaxSessions == 1
MaxCodes == 1
MaxProcs == 1
MaxTicks == 2
MaxAttempts == 3
MaxUsers == 2
MaxUris == 1
MaxClientStates == 1
MaxVerifiers == 2
MaxChallenges == 1

\* ------------------------------------------------- constants of the source
AUTH_CODE_TTL_MS == 600000
SESSION_TTL_MS == 86400000
JWT_EXPIRY_S == 86400
UpstreamExpiresIn == 7200

\* MCP_READ_ONLY_MODE is read from the environment as an optional string
\* and becomes true for the value 'true' alone.  "" is the unset variable.
EnvValues == {"", "true", "false", "TRUE", "1"}
MCP_READ_ONLY_MODE(val) == val = "true"

SessionIds == 1..MaxSessions

\* A session id that a request can name although no session was ever
\* created under it, and the ids a request can name.
StaleId == MaxSessions + 1
SessionKeys == SessionIds \cup {StaleId}
CodeIds == 1..MaxCodes
Users == 1..MaxUsers
RedirectUris == 1..MaxUris
ClientStates == 1..MaxClientStates
Verifiers == 1..MaxVerifiers

\* S256 code challenge of a verifier: a one-way injective image, disjoint
\* from the verifiers themselves.
S256(v) == 100 + v
Challenges == {S256(v) : v \in 1..MaxChallenges}

\* A value is truthy when it is neither undefined nor the empty string
\* (0 for identifiers and tokens, "" for message texts).
Truthy(x) == x # 0
NonEmpty(str) == str # ""

\* ----------------------------------------------------------- state tokens
\* The state parameter that travels through the upstream provider.  A
\* token has a random part (nonce) and may carry an encoded session id
\* (enc, 0 when it carries none).  NoState is the absent parameter.
\* Besides the tokens the server drew there are tokens made elsewhere:
\* one with no session id in it and one for every id a request can name.
NoState == [enc |-> 0, nonce |-> 0]
ForgedNonce == MaxSessions + 1
StateParams ==
  {NoState} \cup {[enc |-> e, nonce |-> ForgedNonce] : e \in {0} \cup SessionKeys}
  \cup {[enc |-> 0, nonce |-> k] : k \in SessionIds}

\* createAuthSession draws state = uuidv4(): a fresh random token with no
\* session id in it.  The k-th session gets the k-th nonce.
NewState(k) == [enc |-> 0, nonce |-> k]

\* decodeStateSessionId: the session id a state token encodes, or null.
decodeStateSessionId(st) == st.enc

\* -------------------------------------------------------------- the stores
Absent == [present |-> FALSE]

SessionData(st, t, uri, cs, ch) ==
  [present |-> TRUE, state |-> st, createdAt |-> t,
   userId |-> 0, accessToken |-> 0, refreshToken |-> 0,
   tokenExpiresAt |-> 0, user |-> 0,
   clientRedirectUri |-> uri, clientState |-> cs,
   clientCodeChallenge |-> ch]

AuthCodeData(sid, t) ==
  [present |-> TRUE, sessionId |-> sid, createdAt |-> t, used |-> FALSE]

VARIABLES
  sessions,     \* Map sessionId -> SessionData (Absent when not in the map)
  nextSession,  \* number of session ids drawn so far (uuidv4 never repeats)
  authCodes,    \* Map code -> AuthCodeData
  nextCode,     \* number of authorization codes drawn so far
  now,          \* Date.now()
  ticks,        \* number of clock advances (bounds the run)
  cb,           \* the bag of /auth/callback requests waiting on the upstream
  jwts,         \* per session: the latest bearer token handed to a client
  resp,         \* the most recent HTTP response
  redeemLog,    \* per code: outcomes of the redemption attempts on it
  origin,       \* per session: the client parameters /authorize was given
  readOnly,     \* config.MCP_READ_ONLY_MODE, fixed when the process starts
  api           \* the upstream call in flight through a TandaClient handle

vars ==
  <<sessions, nextSession, authCodes, nextCode, now, ticks, cb,
    jwts, resp, redeemLog, origin, readOnly, api>>

\* ------------------------------------------------------------- responses
NoToken == [sessionId |-> 0, userId |-> 0, exp |-> 0]

NoParams ==
  [code |-> 0, state |-> 0, error |-> "", error_description |-> ""]

Response(route, status, kind) ==
  [route |-> route, status |-> status, kind |-> kind, location |-> 0,
   params |-> NoParams, error |-> "", token |-> NoToken,
   sessionId |-> 0, code |-> 0, verifier |-> 0, attached |-> FALSE,
   expiresIn |-> 0, bearer |-> FALSE, verified |-> FALSE,
   header |-> "", method |-> "", tool |-> "",
   passed |-> FALSE, dispatched |-> FALSE, rpc |-> "", rpcCode |-> 0,
   message |-> "", tools |-> {}, isError |-> FALSE, upstream |-> {}]

NoResp == Response("none", 0, "none")

\* The query parameters of an /authorize request, as received.
ClientParams(uri, cs, ch) ==
  [redirectUri |-> uri, state |-> cs, codeChallenge |-> ch]

\* No upstream call in flight: no handle is in use.
NoCall ==
  [pc |-> "idle", sessionId |-> 0, method |-> "", accessToken |-> 0,
   refreshToken |-> 0, tokenExpiresAt |-> 0, statusCode |-> 0]

Init ==
  /\ sessions = [s \in SessionKeys |-> Absent]
  /\ nextSession = 0
  /\ authCodes = [c \in CodeIds |-> Absent]
  /\ nextCode = 0
  /\ now = 0
  /\ ticks = 0
  /\ cb = EmptyBag
  /\ jwts = [s \in SessionIds |-> NoToken]
  /\ resp = NoResp
  /\ redeemLog = [c \in CodeIds |-> <<>>]
  /\ origin = [s \in SessionKeys |-> ClientParams(0, 0, 0)]
  /\ readOnly = MCP_READ_ONLY_MODE("")
  /\ api = NoCall

\* --------------------------------------------------------- OAuthManager
\* createAuthSession(clientParams?): a new session under a fresh id with a
\* fresh state token; the client's parameters are stored as given.
createAuthSession(uri, cs, ch) ==
  /\ nextSession < MaxSessions
  /\ nextSession' = nextSession + 1
  /\ sessions' = [sessions EXCEPT ![nextSession + 1] =
                    SessionData(NewState(nextSession + 1), now, uri, cs, ch)]

\* getClientParams as it would be if it dropped the client's state.
getClientParams_NoState(sid) ==
  IF sid \in SessionKeys /\ sessions[sid].present
  THEN [found |-> TRUE,
        redirectUri |-> sessions[sid].clientRedirectUri,
        state |-> 0,
        codeChallenge |-> sessions[sid].clientCodeChallenge]
  ELSE [found |-> FALSE, redirectUri |-> 0, state |-> 0, codeChallenge |-> 0]

\* getClientParams(sessionId): null (all fields absent here) for an unknown
\* session, else the three stored client parameters.
getClientParams(sid) ==
  IF sid \in SessionKeys /\ sessions[sid].present
  THEN [found |-> TRUE,
        redirectUri |-> sessions[sid].clientRedirectUri,
        state |-> sessions[sid].clientState,
        codeChallenge |-> sessions[sid].clientCodeChallenge]
  ELSE [found |-> FALSE, redirectUri |-> 0, state |-> 0, codeChallenge |-> 0]

\* generateJWT as it would be if it signed the session id alone.
generateJWT_NoUser(sid, user) ==
  [sessionId |-> sid, userId |-> 0,
   exp |-> (now \div 1000) + JWT_EXPIRY_S]

\* generateJWT(sessionId, user): the signed payload; exp = iat + JWT_EXPIRY,
\* both in seconds.
generateJWT(sid, user) ==
  [sessionId |-> sid, userId |-> user,
   exp |-> (now \div 1000) + JWT_EXPIRY_S]

\* verifyJWT as it would be if it ignored the expiry of a token.
verifyJWT_NoExpiry(token) ==
  /\ \E s \in SessionIds : jwts[s] = token
  /\ token # NoToken

\* verifyJWT(token): the payload when the token carries this server's
\* signature and has not expired, else null (FALSE here).  The tokens with
\* this server's signature are the ones it handed out.
verifyJWT(token) ==
  /\ \E s \in SessionIds : jwts[s] = token
  /\ token # NoToken
  /\ (now \div 1000) < token.exp

\* ----------------------------------------------------------------- routes
\* GET /authorize: session with the downstream client's parameters.
Authorize(uri, cs, ch) ==
  /\ createAuthSession(uri, cs, ch)
  /\ resp' = [Response("authorize", 302, "redirect") EXCEPT
                !.sessionId = nextSession + 1]
  /\ origin' = [origin EXCEPT ![nextSession + 1] = ClientParams(uri, cs, ch)]
  /\ UNCHANGED <<api, readOnly, authCodes, nextCode, now, ticks, cb, jwts,
                 redeemLog>>

\* GET /auth/login: session without client parameters.
AuthLogin ==
  /\ createAuthSession(0, 0, 0)
  /\ resp' = [Response("login", 302, "redirect") EXCEPT
                !.sessionId = nextSession + 1]
  /\ UNCHANGED <<api, readOnly, authCodes, nextCode, now, ticks, cb, jwts,
                 redeemLog, origin>>

\* invalidateSession(sessionId): delete, report whether it existed.
invalidateSession(sid) == [sessions EXCEPT ![sid] = Absent]

\* ------------------------------------------------------- clock and sweeps
\* The clock advances in steps of a little over half the session TTL: a
\* code and an upstream access token are past their lifetime after one
\* step, a session is within its TTL after one step and past it after two,
\* and a bearer token outlives one step but not two.
TICK_MS == SESSION_TTL_MS \div 2 + AUTH_CODE_TTL_MS

Tick ==
  /\ ticks < MaxTicks
  /\ ticks' = ticks + 1
  /\ now' = now + TICK_MS
  /\ UNCHANGED <<api, readOnly, sessions, nextSession, authCodes, nextCode, cb,
                 jwts, resp, redeemLog, origin>>

\* The auth-code cleanup interval.
SweepAuthCodes ==
  /\ authCodes' =
       [c \in CodeIds |->
          IF authCodes[c].present
             /\ now - authCodes[c].createdAt > AUTH_CODE_TTL_MS
          THEN Absent ELSE authCodes[c]]
  /\ authCodes' # authCodes
  /\ UNCHANGED <<api, readOnly, sessions, nextSession, nextCode, now, ticks, cb,
                 jwts,
                 resp, redeemLog, origin>>

\* The session cleanup interval as it would be if it also dropped the
\* sessions that have not been authenticated, whatever their age.
SweepSessions_DropsPending ==
  /\ sessions' =
       [s \in SessionKeys |->
          IF sessions[s].present
             /\ (\/ now - sessions[s].createdAt > SESSION_TTL_MS
                 \/ ~Truthy(sessions[s].accessToken))
          THEN Absent ELSE sessions[s]]
  /\ sessions' # sessions
  /\ UNCHANGED <<api, readOnly, nextSession, authCodes, nextCode, now, ticks, cb,
                 jwts,
                 resp, redeemLog, origin>>

\* The session cleanup interval.
SweepSessions ==
  /\ sessions' =
       [s \in SessionKeys |->
          IF sessions[s].present
             /\ now - sessions[s].createdAt > SESSION_TTL_MS
          THEN Absent ELSE sessions[s]]
  /\ sessions' # sessions
  /\ UNCHANGED <<api, readOnly, nextSession, authCodes, nextCode, now, ticks, cb,
                 jwts,
                 resp, redeemLog, origin>>

\* ------------------------------------------------ GET /auth/callback
\* The session resolution as it would be if the cookie came first.
ResolveSessionId_CookieFirst(state, cookie) ==
  IF Truthy(cookie) THEN cookie
  ELSE IF state # NoState THEN decodeStateSessionId(state) ELSE 0

\* Session resolution at the top of the route: the id decoded from the
\* state when there is a state; the cookie only when there is a state that
\* decodes to nothing.
ResolveSessionId(state, cookie) ==
  LET fromState == IF state # NoState THEN decodeStateSessionId(state) ELSE 0
  IN  IF ~Truthy(fromState) /\ state # NoState THEN cookie ELSE fromState

\* handleCallback's head as it would be without the state comparison.
handleCallbackCheck_NoStateCheck(sid, returnedState) ==
  IF ~sessions[sid].present THEN "Invalid or expired session" ELSE ""

\* The synchronous head of handleCallback: "" when both checks pass.
handleCallbackCheck(sid, returnedState) ==
  IF ~sessions[sid].present THEN "Invalid or expired session"
  ELSE IF sessions[sid].state # returnedState
       THEN "State mismatch - possible CSRF attack"
       ELSE ""

\* The route's answer to an upstream-reported error (?error=...).
UpstreamErrorResponse(uri, cs, error, errdesc) ==
  IF Truthy(uri)
  THEN [Response("callback", 302, "redirect") EXCEPT
          !.location = uri,
          !.params = [code |-> 0, state |-> cs, error |-> error,
                      error_description |-> errdesc]]
  ELSE [Response("callback", 400, "json") EXCEPT
          !.error = IF NonEmpty(errdesc) THEN errdesc ELSE error]

\* The route as it would be if a failed handleCallback were always
\* answered locally.
CallbackFailureResponse_Json(uri, cs, error) ==
  [Response("callback", 400, "json") EXCEPT !.error = error]

\* The route's answer when handleCallback returned success: false.
CallbackFailureResponse(uri, cs, error) ==
  IF Truthy(uri)
  THEN [Response("callback", 302, "redirect") EXCEPT
          !.location = uri,
          !.params = [code |-> 0, state |-> cs, error |-> "access_denied",
                      error_description |->
                        IF NonEmpty(error) THEN error
                        ELSE "Authentication failed"]]
  ELSE [Response("callback", 400, "json") EXCEPT !.error = error]

\* The synchronous stretch of the route for one request, from its query
\* and cookie to its first await: either the response it sends at once
\* (await = "") or the values its handler holds in local variables while
\* it waits for the upstream exchange, in the direct test ("direct") or
\* inside handleCallback ("session").
CallbackArrival(code, state, error, errdesc, cookie) ==
  LET sessionId == ResolveSessionId(state, cookie)
      clientParams == getClientParams(sessionId)
      uri == clientParams.redirectUri
      cs == clientParams.state
      answer(r) ==
        [await |-> "", resp |-> [r EXCEPT !.sessionId = sessionId],
         sessionId |-> sessionId, clientRedirectUri |-> uri,
         clientState |-> cs,
         clientCodeChallenge |-> clientParams.codeChallenge]
      wait(mode) == [answer(NoResp) EXCEPT !.await = mode, !.resp = NoResp]
  IN  IF NonEmpty(error)
      THEN answer(UpstreamErrorResponse(uri, cs, error, errdesc))
      ELSE IF ~Truthy(code)
      THEN answer([Response("callback", 400, "json") EXCEPT
                     !.error = "Missing code parameter"])
      ELSE IF ~Truthy(sessionId)
      THEN wait("direct")
      ELSE LET err == handleCallbackCheck(sessionId, state)
           IN  IF NonEmpty(err)
               THEN answer(CallbackFailureResponse(uri, cs, err))
               ELSE wait("session")

\* The request arrives.  A request that gets as far as the upstream
\* exchange joins the bag of waiting requests.
AuthCallback(code, state, error, errdesc, cookie) ==
  /\ LET out == CallbackArrival(code, state, error, errdesc, cookie)
     IN  IF out.await = ""
         THEN /\ resp' = out.resp
              /\ cb' = cb
         ELSE /\ BagCardinality(cb) < MaxProcs
              /\ cb' = cb (+) SetToBag({
                   [pc |-> "exchange", mode |-> out.await,
                    sessionId |-> out.sessionId,
                    clientRedirectUri |-> out.clientRedirectUri,
                    clientState |-> out.clientState,
                    clientCodeChallenge |-> out.clientCodeChallenge,
                    accessToken |-> 0]})
              /\ resp' = resp
  /\ UNCHANGED <<api, readOnly, sessions, nextSession, authCodes, nextCode, now,
                 ticks,
                 jwts, redeemLog, origin>>

\* The answer to a request whose upstream call failed: handleCallback's
\* catch block and the failure branch of the route, or the catch block of
\* the direct test.
UpstreamFailureResponse(r) ==
  [(IF r.mode = "direct"
    THEN [Response("callback", 400, "json") EXCEPT !.error = "Request failed"]
    ELSE CallbackFailureResponse(r.clientRedirectUri, r.clientState,
                                 "Request failed"))
   EXCEPT !.sessionId = r.sessionId]

\* exchangeCodeForToken settles for the waiting request r.  ok = FALSE is
\* a rejection or a timeout; otherwise the upstream grants the access
\* token of the account that approved the request (token u for user u;
\* the direct test keeps nothing of it that is modelled).
ExchangeDone(r, ok, grant) ==
  /\ BagIn(r, cb)
  /\ r.pc = "exchange"
  /\ IF ok
     THEN /\ cb' = (cb (-) SetToBag({r})) (+)
                   SetToBag({[r EXCEPT !.pc = "user",
                                !.accessToken =
                                  IF r.mode = "direct" THEN 0 ELSE grant]})
          /\ resp' = resp
     ELSE /\ cb' = cb (-) SetToBag({r})
          /\ resp' = UpstreamFailureResponse(r)
  /\ UNCHANGED <<api, readOnly, sessions, nextSession, authCodes, nextCode, now,
                 ticks,
                 jwts, redeemLog, origin>>

\* The assignments of handleCallback as they would be if the upstream
\* credentials were stored before the identity was known and the identity
\* never written.
mutateOnCallback_TokensOnly(sid, grant, user) ==
  IF sessions[sid].present
  THEN [sessions EXCEPT ![sid] =
          [@ EXCEPT !.accessToken = grant, !.refreshToken = grant,
                    !.tokenExpiresAt = now + UpstreamExpiresIn * 1000]]
  ELSE sessions

\* The assignments of handleCallback as they would be with a sliding
\* expiry, the session's age restarting when it is authenticated.
mutateOnCallback_Touch(sid, grant, user) ==
  IF sessions[sid].present
  THEN [sessions EXCEPT ![sid] =
          [@ EXCEPT !.accessToken = grant, !.refreshToken = grant,
                    !.tokenExpiresAt = now + UpstreamExpiresIn * 1000,
                    !.userId = user, !.user = user, !.createdAt = now]]
  ELSE sessions

\* The five assignments of handleCallback to the session object it looked
\* up before the awaits.  The store shows them only while it still holds
\* that object.
mutateOnCallback(sid, grant, user) ==
  IF sessions[sid].present
  THEN [sessions EXCEPT ![sid] =
          [@ EXCEPT !.accessToken = grant, !.refreshToken = grant,
                    !.tokenExpiresAt = now + UpstreamExpiresIn * 1000,
                    !.userId = user, !.user = user]]
  ELSE sessions

\* generateAuthCode(sessionId): a fresh unused code for the session.
generateAuthCode(sid) ==
  [authCodes EXCEPT ![nextCode + 1] = AuthCodeData(sid, now)]

\* The route's test for a flow started by a downstream client
\* (`if (clientRedirectUri)` after a successful handleCallback), as it
\* would be if every flow counted as one.
isClientFlow_Always(uri) == TRUE

\* The route's test as it would be if no flow counted as started by a
\* downstream client, every successful callback answering with the token.
isClientFlow_Never(uri) == FALSE

\* The route's test for a flow started by a downstream client.
isClientFlow(uri) == Truthy(uri)

\* getCurrentUser settles for the waiting request r with the user the
\* access token belongs to; on success the rest of handleCallback and of
\* the route run.
UserDone(r, ok) ==
  /\ BagIn(r, cb)
  /\ r.pc = "user"
  /\ cb' = cb (-) SetToBag({r})
  /\ LET sid == r.sessionId
         uri == r.clientRedirectUri
         cs == r.clientState
         user == r.accessToken
     IN  IF ~ok
         THEN /\ resp' = UpstreamFailureResponse(r)
              /\ UNCHANGED <<sessions, authCodes, nextCode, jwts>>
         ELSE IF r.mode = "direct"
         THEN /\ resp' = Response("callback", 200, "json")
              /\ UNCHANGED <<sessions, authCodes, nextCode, jwts>>
         ELSE /\ sessions' = mutateOnCallback(sid, r.accessToken, user)
              /\ IF isClientFlow(uri)
                 THEN /\ nextCode < MaxCodes
                      /\ authCodes' = generateAuthCode(sid)
                      /\ nextCode' = nextCode + 1
                      /\ jwts' = jwts
                      /\ resp' =
                           [Response("callback", 302, "redirect") EXCEPT
                              !.location = uri, !.sessionId = sid,
                              !.params = [NoParams EXCEPT
                                            !.code = nextCode + 1,
                                            !.state = cs]]
                 ELSE /\ jwts' = [jwts EXCEPT ![sid] = generateJWT(sid, user)]
                      /\ resp' =
                           [Response("callback", 200, "json") EXCEPT
                              !.sessionId = sid,
                              !.token = generateJWT(sid, user)]
                      /\ UNCHANGED <<authCodes, nextCode>>
  /\ UNCHANGED <<api, readOnly, nextSession, now, ticks, redeemLog, origin>>

\* ---------------------------------------------------------- POST /token
\* exchangeAuthCode as it would be without the `used = true` assignment.
exchangeAuthCode_NoMark(code) ==
  LET authCodeData == authCodes[code]
      fail(msg, store) ==
        [success |-> FALSE, accessToken |-> NoToken, error |-> msg,
         authCodes |-> store]
      deleted == [authCodes EXCEPT ![code] = Absent]
  IN  IF ~authCodeData.present
      THEN fail("Invalid authorization code", authCodes)
      ELSE IF authCodeData.used
      THEN fail("Authorization code already used", deleted)
      ELSE IF now - authCodeData.createdAt > AUTH_CODE_TTL_MS
      THEN fail("Authorization code expired", deleted)
      ELSE LET session == sessions[authCodeData.sessionId]
           IN  IF ~session.present \/ ~Truthy(session.user)
               THEN fail("Session not found", authCodes)
               ELSE [success |-> TRUE,
                     accessToken |->
                       generateJWT(authCodeData.sessionId, session.user),
                     error |-> "", authCodes |-> authCodes]

\* exchangeAuthCode as it would be if a reused code were kept in the store.
exchangeAuthCode_KeepUsed(code) ==
  LET authCodeData == authCodes[code]
      fail(msg, store) ==
        [success |-> FALSE, accessToken |-> NoToken, error |-> msg,
         authCodes |-> store]
      deleted == [authCodes EXCEPT ![code] = Absent]
      marked == [authCodes EXCEPT ![code].used = TRUE]
  IN  IF ~authCodeData.present
      THEN fail("Invalid authorization code", authCodes)
      ELSE IF authCodeData.used
      THEN fail("Authorization code already used", authCodes)
      ELSE IF now - authCodeData.createdAt > AUTH_CODE_TTL_MS
      THEN fail("Authorization code expired", deleted)
      ELSE LET session == sessions[authCodeData.sessionId]
           IN  IF ~session.present \/ ~Truthy(session.user)
               THEN fail("Session not found", marked)
               ELSE [success |-> TRUE,
                     accessToken |->
                       generateJWT(authCodeData.sessionId, session.user),
                     error |-> "", authCodes |-> marked]

\* exchangeAuthCode as it would be without the TTL test.
exchangeAuthCode_NoExpiry(code) ==
  LET authCodeData == authCodes[code]
      fail(msg, store) ==
        [success |-> FALSE, accessToken |-> NoToken, error |-> msg,
         authCodes |-> store]
      deleted == [authCodes EXCEPT ![code] = Absent]
      marked == [authCodes EXCEPT ![code].used = TRUE]
  IN  IF ~authCodeData.present
      THEN fail("Invalid authorization code", authCodes)
      ELSE IF authCodeData.used
      THEN fail("Authorization code already used", deleted)
      ELSE LET session == sessions[authCodeData.sessionId]
           IN  IF ~session.present \/ ~Truthy(session.user)
               THEN fail("Session not found", marked)
               ELSE [success |-> TRUE,
                     accessToken |->
                       generateJWT(authCodeData.sessionId, session.user),
                     error |-> "", authCodes |-> marked]

\* exchangeAuthCode as it would be if a code lived as long as a session.
exchangeAuthCode_SessionTtl(code) ==
  LET authCodeData == authCodes[code]
      fail(msg, store) ==
        [success |-> FALSE, accessToken |-> NoToken, error |-> msg,
         authCodes |-> store]
      deleted == [authCodes EXCEPT ![code] = Absent]
      marked == [authCodes EXCEPT ![code].used = TRUE]
  IN  IF ~authCodeData.present
      THEN fail("Invalid authorization code", authCodes)
      ELSE IF authCodeData.used
      THEN fail("Authorization code already used", deleted)
      ELSE IF now - authCodeData.createdAt > SESSION_TTL_MS
      THEN fail("Authorization code expired", deleted)
      ELSE LET session == sessions[authCodeData.sessionId]
           IN  IF ~session.present \/ ~Truthy(session.user)
               THEN fail("Session not found", marked)
               ELSE [success |-> TRUE,
                     accessToken |->
                       generateJWT(authCodeData.sessionId, session.user),
                     error |-> "", authCodes |-> marked]

\* exchangeAuthCode as it would be if the code were marked used only once
\* the session had been found.
exchangeAuthCode_MarkOnSuccess(code) ==
  LET authCodeData == authCodes[code]
      fail(msg, store) ==
        [success |-> FALSE, accessToken |-> NoToken, error |-> msg,
         authCodes |-> store]
      deleted == [authCodes EXCEPT ![code] = Absent]
      marked == [authCodes EXCEPT ![code].used = TRUE]
  IN  IF ~authCodeData.present
      THEN fail("Invalid authorization code", authCodes)
      ELSE IF authCodeData.used
      THEN fail("Authorization code already used", deleted)
      ELSE IF now - authCodeData.createdAt > AUTH_CODE_TTL_MS
      THEN fail("Authorization code expired", deleted)
      ELSE LET session == sessions[authCodeData.sessionId]
           IN  IF ~session.present \/ ~Truthy(session.user)
               THEN fail("Session not found", authCodes)
               ELSE [success |-> TRUE,
                     accessToken |->
                       generateJWT(authCodeData.sessionId, session.user),
                     error |-> "", authCodes |-> marked]

\* exchangeAuthCode(code): the result and the code store it leaves behind.
exchangeAuthCode(code) ==
  LET authCodeData == authCodes[code]
      fail(msg, store) ==
        [success |-> FALSE, accessToken |-> NoToken, error |-> msg,
         authCodes |-> store]
      deleted == [authCodes EXCEPT ![code] = Absent]
      marked == [authCodes EXCEPT ![code].used = TRUE]
  IN  IF ~authCodeData.present
      THEN fail("Invalid authorization code", authCodes)
      ELSE IF authCodeData.used
      THEN fail("Authorization code already used", deleted)
      ELSE IF now - authCodeData.createdAt > AUTH_CODE_TTL_MS
      THEN fail("Authorization code expired", deleted)
      ELSE LET session == sessions[authCodeData.sessionId]
           IN  IF ~session.present \/ ~Truthy(session.user)
               THEN fail("Session not found", marked)
               ELSE [success |-> TRUE,
                     accessToken |->
                       generateJWT(authCodeData.sessionId, session.user),
                     error |-> "", authCodes |-> marked]

\* The route.  code = 0 is a missing code; verifier = 0 a missing
\* code_verifier.  The verifier is handed to exchangeAuthCode, which has
\* no parameter for it.
Token(grantType, code, verifier) ==
  /\ IF grantType # "authorization_code"
     THEN /\ resp' = [Response("token", 400, "json") EXCEPT
                        !.error = "unsupported_grant_type"]
          /\ UNCHANGED <<authCodes, jwts, redeemLog>>
     ELSE IF ~Truthy(code)
     THEN /\ resp' = [Response("token", 400, "json") EXCEPT
                        !.error = "invalid_request"]
          /\ UNCHANGED <<authCodes, jwts, redeemLog>>
     ELSE LET result == exchangeAuthCode(code)
          IN  /\ Len(redeemLog[code]) < MaxAttempts
              /\ authCodes' = result.authCodes
              /\ redeemLog' =
                   IF code <= nextCode
                   THEN [redeemLog EXCEPT ![code] =
                           Append(@, IF result.success THEN "ok"
                                     ELSE result.error)]
                   ELSE redeemLog
              /\ IF result.success
                 THEN /\ jwts' = [jwts EXCEPT ![result.accessToken.sessionId] =
                                      result.accessToken]
                      /\ resp' = [Response("token", 200, "json") EXCEPT
                                    !.token = result.accessToken,
                                    !.code = code, !.verifier = verifier]
                 ELSE /\ jwts' = jwts
                      /\ resp' = [Response("token", 400, "json") EXCEPT
                                    !.error = "invalid_grant",
                                    !.params = [NoParams EXCEPT
                                      !.error_description = result.error],
                                    !.code = code]
  /\ UNCHANGED <<api, readOnly, sessions, nextSession, nextCode, now, ticks, cb,
                 origin>>

\* ------------------------------------------------------------ middleware
\* A forged or garbled bearer token: it never verifies.
ForgedToken == [sessionId |-> 1, userId |-> 1, exp |-> 0]

\* getTandaClient as it would be if it built a client without looking the
\* session up.
getTandaClient_NoLookup(sid) == TRUE

\* getTandaClient(sessionId): null (FALSE) unless the session is in the
\* store and has an access token.
getTandaClient(sid) ==
  sessions[sid].present /\ Truthy(sessions[sid].accessToken)

\* The handle getTandaClient builds (none for a session that is not in the
\* store): the session's tokens and the seconds
\* its access token has left, Math.floor((tokenExpiresAt - Date.now()) /
\* 1000), which is negative once the token has expired (0 when the
\* session records no expiry).  It is built from the session as it is.
TandaClient(sid) ==
  IF ~sessions[sid].present
  THEN [accessToken |-> 0, refreshToken |-> 0, expiresIn |-> 0]
  ELSE [accessToken |-> sessions[sid].accessToken,
        refreshToken |-> sessions[sid].refreshToken,
        expiresIn |-> IF Truthy(sessions[sid].tokenExpiresAt)
                      THEN (sessions[sid].tokenExpiresAt - now) \div 1000
                      ELSE 0]

\* The Authorization headers a request can carry: none, "Bearer <token>"
\* (with nothing after the blank for NoToken), another spelling of the
\* scheme, another scheme, and a header of three parts.
NoHeader == [scheme |-> "", parts |-> 0, token |-> NoToken]
AuthHeaders ==
  {NoHeader}
  \cup {[scheme |-> "Bearer", parts |-> 2, token |-> t] :
          t \in {jwts[s] : s \in SessionIds} \cup {NoToken, ForgedToken}}
  \cup {[scheme |-> "bearer", parts |-> 2, token |-> jwts[s]] :
          s \in SessionIds}
  \cup {[scheme |-> "Basic", parts |-> 2, token |-> jwts[s]] :
          s \in SessionIds}
  \cup {[scheme |-> "Bearer", parts |-> 3, token |-> jwts[s]] :
          s \in SessionIds}

toLowerCase(str) ==
  IF str \in {"Bearer", "bearer", "BEARER"} THEN "bearer"
  ELSE IF str \in {"Basic", "basic"} THEN "basic"
  ELSE str

\* extractBearerToken as it would be if it took the second part of any
\* header.
extractBearerToken_AnyScheme(h) == h.token

\* extractBearerToken(req): null (NoToken) without a header, for a header
\* that is not two parts, and for a scheme other than bearer.
extractBearerToken(h) ==
  IF h = NoHeader THEN NoToken
  ELSE IF h.parts # 2 \/ toLowerCase(h.scheme) # "bearer" THEN NoToken
  ELSE h.token

\* requireAuth as it would be if a token that no longer verifies made it
\* drop the session the token names.
requireAuth_DropsStale(token) ==
  /\ resp' =
       IF token = NoToken
       THEN [Response("requireAuth", 401, "json") EXCEPT
               !.error = "No authentication token provided"]
       ELSE IF ~verifyJWT(token)
       THEN [Response("requireAuth", 401, "json") EXCEPT
               !.error = "Invalid or expired token"]
       ELSE IF ~getTandaClient(token.sessionId)
       THEN [Response("requireAuth", 401, "json") EXCEPT
               !.error = "Session expired or invalid",
               !.sessionId = token.sessionId]
       ELSE [Response("requireAuth", 0, "next") EXCEPT
               !.attached = TRUE, !.sessionId = token.sessionId,
               !.expiresIn = TandaClient(token.sessionId).expiresIn]
  /\ sessions' =
       IF token # NoToken /\ ~verifyJWT(token)
       THEN [sessions EXCEPT ![token.sessionId] = Absent]
       ELSE sessions
  /\ UNCHANGED <<api, readOnly, nextSession, authCodes, nextCode, now,
                 ticks,
                 cb, jwts, redeemLog, origin>>

\* requireAuth: 401 unless token, payload and client are all there.
requireAuth(token) ==
  /\ resp' =
       IF token = NoToken
       THEN [Response("requireAuth", 401, "json") EXCEPT
               !.error = "No authentication token provided"]
       ELSE IF ~verifyJWT(token)
       THEN [Response("requireAuth", 401, "json") EXCEPT
               !.error = "Invalid or expired token"]
       ELSE IF ~getTandaClient(token.sessionId)
       THEN [Response("requireAuth", 401, "json") EXCEPT
               !.error = "Session expired or invalid",
               !.sessionId = token.sessionId]
       ELSE [Response("requireAuth", 0, "next") EXCEPT
               !.attached = TRUE, !.sessionId = token.sessionId,
               !.expiresIn = TandaClient(token.sessionId).expiresIn]
  /\ UNCHANGED <<api, readOnly, sessions, nextSession, authCodes, nextCode, now,
                 ticks,
                 cb, jwts, redeemLog, origin>>

\* optionalAuth: always next(); req.auth only when all three are there.
optionalAuth(token) ==
  /\ resp' =
       IF token # NoToken /\ verifyJWT(token)
          /\ getTandaClient(token.sessionId)
       THEN [Response("optionalAuth", 0, "next") EXCEPT
               !.attached = TRUE, !.sessionId = token.sessionId,
               !.expiresIn = TandaClient(token.sessionId).expiresIn]
       ELSE Response("optionalAuth", 0, "next")
  /\ UNCHANGED <<api, readOnly, sessions, nextSession, authCodes, nextCode, now,
                 ticks,
                 cb, jwts, redeemLog, origin>>

\* ----------------------------------------------------- POST /auth/logout
AuthLogout(token, cookie) ==
  /\ LET byToken == token # NoToken /\ verifyJWT(token)
                    /\ sessions[token.sessionId].present
         afterToken == IF token # NoToken /\ verifyJWT(token)
                       THEN invalidateSession(token.sessionId)
                       ELSE sessions
     IN  /\ sessions' = IF Truthy(cookie) /\ ~byToken
                        THEN [afterToken EXCEPT ![cookie] = Absent]
                        ELSE afterToken
         /\ resp' = [Response("logout", 200, "json") EXCEPT
                       !.error =
                         IF byToken
                            \/ (Truthy(cookie) /\ afterToken[cookie].present)
                         THEN "Logged out successfully"
                         ELSE "No active session found"]
  /\ UNCHANGED <<api, readOnly, nextSession, authCodes, nextCode, now, ticks, cb,
                 jwts,
                 redeemLog, origin>>

\* ------------------------------------------------------------- MCP tools
\* The operations blocked in read-only mode.
WRITE_TOOLS ==
  {"tanda_create_schedule", "tanda_update_schedule", "tanda_delete_schedule",
   "tanda_publish_schedules", "tanda_approve_shift",
   "tanda_approve_timesheet", "tanda_create_leave_request",
   "tanda_approve_leave", "tanda_decline_leave",
   "tanda_delete_leave_request", "tanda_create_unavailability",
   "tanda_delete_unavailability", "tanda_onboard_users", "tanda_invite_user"}

\* The names of the tool definitions, in the order of the catalog.
tandaTools ==
  {"tanda_get_current_user", "tanda_get_users", "tanda_get_user",
   "tanda_get_departments", "tanda_get_locations", "tanda_get_schedules",
   "tanda_create_schedule", "tanda_update_schedule", "tanda_delete_schedule",
   "tanda_publish_schedules", "tanda_get_shifts", "tanda_get_timesheets",
   "tanda_approve_shift", "tanda_approve_timesheet",
   "tanda_get_leave_requests", "tanda_create_leave_request",
   "tanda_approve_leave", "tanda_decline_leave",
   "tanda_delete_leave_request", "tanda_get_leave_balances",
   "tanda_get_unavailability", "tanda_create_unavailability",
   "tanda_delete_unavailability", "tanda_get_teams",
   "tanda_get_staff_by_department", "tanda_get_daily_stats",
   "tanda_get_active_shifts", "tanda_get_clocked_in_users",
   "tanda_get_shift_breaks", "tanda_get_shift_limits", "tanda_get_roster",
   "tanda_get_current_roster", "tanda_get_roster_by_date",
   "tanda_get_inactive_users", "tanda_onboard_users", "tanda_invite_user",
   "tanda_get_leave_types", "tanda_calculate_leave_hours",
   "tanda_get_award_interpretation", "tanda_get_roster_costs"}

\* The switch of executeTool: the client method each case calls.
executorCases ==
  "tanda_get_current_user" :> "getCurrentUser" @@
  "tanda_get_users" :> "getUsers" @@ "tanda_get_user" :> "getUser" @@
  "tanda_get_departments" :> "getDepartments" @@
  "tanda_get_locations" :> "getLocations" @@
  "tanda_get_schedules" :> "getSchedules" @@
  "tanda_create_schedule" :> "createSchedule" @@
  "tanda_update_schedule" :> "updateSchedule" @@
  "tanda_delete_schedule" :> "deleteSchedule" @@
  "tanda_publish_schedules" :> "publishSchedules" @@
  "tanda_get_shifts" :> "getShifts" @@
  "tanda_get_timesheets" :> "getTimesheets" @@
  "tanda_approve_shift" :> "approveShift" @@
  "tanda_approve_timesheet" :> "approveTimesheet" @@
  "tanda_get_leave_requests" :> "getLeaveRequests" @@
  "tanda_create_leave_request" :> "createLeaveRequest" @@
  "tanda_approve_leave" :> "approveLeaveRequest" @@
  "tanda_decline_leave" :> "declineLeaveRequest" @@
  "tanda_delete_leave_request" :> "deleteLeaveRequest" @@
  "tanda_get_leave_balances" :> "getLeaveBalances" @@
  "tanda_get_unavailability" :> "getUnavailability" @@
  "tanda_create_unavailability" :> "createUnavailability" @@
  "tanda_delete_unavailability" :> "deleteUnavailability" @@
  "tanda_get_teams" :> "getTeams" @@
  "tanda_get_staff_by_department" :> "getStaffByDepartment" @@
  "tanda_get_daily_stats" :> "getDailyStats" @@
  "tanda_get_award_interpretation" :> "getAwardInterpretation" @@
  "tanda_get_roster_costs" :> "getRosterCosts" @@
  "tanda_get_active_shifts" :> "getActiveShifts" @@
  "tanda_get_clocked_in_users" :> "getClockedInUsers" @@
  "tanda_get_shift_breaks" :> "getShiftBreaks" @@
  "tanda_get_shift_limits" :> "getShiftLimits" @@
  "tanda_get_roster" :> "getRoster" @@
  "tanda_get_current_roster" :> "getCurrentRoster" @@
  "tanda_get_roster_by_date" :> "getRosterByDate" @@
  "tanda_get_inactive_users" :> "getInactiveUsers" @@
  "tanda_onboard_users" :> "onboardUsers" @@
  "tanda_invite_user" :> "inviteUser" @@
  "tanda_get_leave_types" :> "getLeaveTypes" @@
  "tanda_calculate_leave_hours" :> "calculateLeaveHours"

\* The client methods that send POST, PUT or DELETE upstream
\* (onboardUsers and inviteUser post to /users/onboarding and
\* /users/{id}/invite, see docs/FIT_GAP_ANALYSIS.md).
UpstreamWriteMethods ==
  {"createSchedule", "updateSchedule", "deleteSchedule", "publishSchedules",
   "approveShift", "approveTimesheet", "createLeaveRequest",
   "approveLeaveRequest", "declineLeaveRequest", "deleteLeaveRequest",
   "createUnavailability", "deleteUnavailability", "onboardUsers",
   "inviteUser", "updateUser"}

\* isToolAllowed(toolName)
isToolAllowed(toolName) == ~(readOnly /\ toolName \in WRITE_TOOLS)

\* getAvailableTools as it would be without the filter.
getAvailableTools_Unfiltered == tandaTools

\* getAvailableTools(): the catalog, without the write tools in read-only
\* mode.
getAvailableTools ==
  IF readOnly THEN {tool \in tandaTools : tool \notin WRITE_TOOLS}
  ELSE tandaTools

\* What a tool execution comes to: the client methods it invoked and the
\* content it returned.
ToolResult(isError, upstream, message) ==
  [isError |-> isError, upstream |-> upstream, message |-> message]

\* executeTool as it would be without the read-only test.
executeTool_NoReadOnlyCheck(toolName, ok) ==
  IF toolName \in DOMAIN executorCases
  THEN ToolResult(~ok, {executorCases[toolName]},
                  IF ok THEN "" ELSE "upstream error")
  ELSE ToolResult(TRUE, {}, "Unknown tool")

\* executeTool(client, toolName, args): refused in read-only mode for a
\* write tool before anything else; otherwise the case's client method is
\* called, and its failure (ok = FALSE) is caught and returned as an error
\* content.
executeTool(toolName, ok) ==
  IF readOnly /\ toolName \in WRITE_TOOLS
  THEN ToolResult(TRUE, {}, "not available in read-only mode")
  ELSE IF toolName \in DOMAIN executorCases
  THEN ToolResult(~ok, {executorCases[toolName]},
                  IF ok THEN "" ELSE "upstream error")
  ELSE ToolResult(TRUE, {}, "Unknown tool")

\* ----------------------------------------------------------- MCP handler
INVALID_REQUEST == -32600
METHOD_NOT_FOUND == -32601
INVALID_PARAMS == -32602
INTERNAL_ERROR == -32603

\* A JSON-RPC response of the handler: a result or an error with its code;
\* tools is the catalog a tools/list result carries, upstream the client
\* methods the request made the server call.
RpcResult(message) ==
  [rpc |-> "result", rpcCode |-> 0, message |-> message, tools |-> {},
   isError |-> FALSE, upstream |-> {}]

createErrorResponse(code, message) ==
  [rpc |-> "error", rpcCode |-> code, message |-> message, tools |-> {},
   isError |-> FALSE, upstream |-> {}]

\* A request body: jsonrpc and method as sent ("" when missing),
\* params.name of tools/call and params.uri of resources/read.
McpRequest(jsonrpc, method, name, uri) ==
  [jsonrpc |-> jsonrpc, method |-> method, name |-> name, uri |-> uri]

\* handleListTools
handleListTools ==
  [RpcResult("tools") EXCEPT !.tools = getAvailableTools]

\* handleCallTool(request, tandaClient)
handleCallTool(request, tandaClient, ok) ==
  IF ~NonEmpty(request.name)
  THEN createErrorResponse(INVALID_PARAMS, "Tool name is required")
  ELSE IF ~tandaClient
  THEN createErrorResponse(INVALID_REQUEST, "Authentication required")
  ELSE IF request.name \notin tandaTools
  THEN createErrorResponse(METHOD_NOT_FOUND, "Tool not found")
  ELSE LET result == executeTool(request.name, ok)
       IN  [RpcResult(result.message) EXCEPT
              !.isError = result.isError, !.upstream = result.upstream]

\* handleReadResource(request, tandaClient)
handleReadResource(request, tandaClient, ok) ==
  IF ~NonEmpty(request.uri)
  THEN createErrorResponse(INVALID_PARAMS, "Resource URI is required")
  ELSE IF ~tandaClient
  THEN createErrorResponse(INVALID_REQUEST, "Authentication required")
  ELSE IF request.uri = "tanda://user/current"
  THEN IF ok
       THEN [RpcResult("contents") EXCEPT !.upstream = {"getCurrentUser"}]
       ELSE [createErrorResponse(INTERNAL_ERROR, "upstream error") EXCEPT
               !.upstream = {"getCurrentUser"}]
  ELSE IF request.uri = "tanda://organization/info"
  THEN IF ok
       THEN [RpcResult("contents") EXCEPT
               !.upstream = {"getDepartments", "getLocations"}]
       ELSE [createErrorResponse(INTERNAL_ERROR, "upstream error") EXCEPT
               !.upstream = {"getDepartments", "getLocations"}]
  ELSE createErrorResponse(INVALID_PARAMS, "Unknown resource")

\* handleRequest(request, tandaClient): the dispatch on the method name.
handleRequest(request, tandaClient, ok) ==
  CASE request.method = "initialize" -> RpcResult("initialize")
    [] request.method = "tools/list" -> handleListTools
    [] request.method = "tools/call" ->
         handleCallTool(request, tandaClient, ok)
    [] request.method = "resources/list" -> RpcResult("resources")
    [] request.method = "resources/read" ->
         handleReadResource(request, tandaClient, ok)
    [] request.method = "prompts/list" -> RpcResult("prompts")
    [] request.method = "ping" -> RpcResult("ping")
    [] OTHER -> createErrorResponse(METHOD_NOT_FOUND, "Method not found")

\* ------------------------------------------------- POST /mcp and POST /
\* The header the gate sets on its 401.
WWWAuthenticate ==
  "Bearer resource_metadata=/.well-known/oauth-protected-resource"

\* The gate as it would be if it guarded tool calls alone.
gateRejects_OnlyCalls(method, attached) ==
  method = "tools/call" /\ ~attached

\* The gate as it would be if it let every method through.
gateRejects_Never(method, attached) == FALSE

\* The gate between optionalAuth and the router: every method but
\* initialize needs the API handle optionalAuth attached.
gateRejects(method, attached) == method # "initialize" /\ ~attached

\* req.auth as optionalAuth leaves it for a request with header h: the
\* session id and the API handle when the token verifies and
\* getTandaClient finds credentials, nothing otherwise.  bearer and
\* verified tell how far optionalAuth got: a token was extracted, and its
\* payload verified.
reqAuth(h) ==
  LET token == extractBearerToken(h)
  IN  IF token # NoToken /\ verifyJWT(token)
         /\ getTandaClient(token.sessionId)
      THEN [tandaClient |-> TRUE, sessionId |-> token.sessionId,
            expiresIn |-> TandaClient(token.sessionId).expiresIn,
            bearer |-> TRUE, verified |-> TRUE]
      ELSE [tandaClient |-> FALSE, sessionId |-> 0, expiresIn |-> 0,
            bearer |-> token # NoToken,
            verified |-> token # NoToken /\ verifyJWT(token)]

\* What POST /mcp and POST / answer to a request that optionalAuth left
\* with auth: the gate's 401, the router's 400 for a body that is not a
\* JSON-RPC 2.0 request with a method, or the handler's response.  ok is
\* the outcome of the upstream calls the handler makes.
McpAnswer(route, request, auth, ok) ==
  LET base == [Response(route, 200, "json") EXCEPT
                 !.method = request.method,
                 !.tool = request.name,
                 !.attached = auth.tandaClient,
                 !.bearer = auth.bearer,
                 !.verified = auth.verified,
                 !.sessionId = auth.sessionId,
                 !.expiresIn = auth.expiresIn]
  IN  IF gateRejects(request.method, auth.tandaClient)
      THEN [base EXCEPT !.status = 401, !.error = "unauthorized",
                        !.header = WWWAuthenticate]
      ELSE IF request.jsonrpc # "2.0" \/ ~NonEmpty(request.method)
      THEN [base EXCEPT !.status = 400, !.passed = TRUE,
                        !.rpc = "error", !.rpcCode = INVALID_REQUEST,
                        !.message = "Invalid JSON-RPC 2.0 request"]
      ELSE LET response == handleRequest(request, auth.tandaClient, ok)
           IN  [base EXCEPT !.passed = TRUE, !.dispatched = TRUE,
                            !.rpc = response.rpc,
                            !.rpcCode = response.rpcCode,
                            !.message = response.message,
                            !.tools = response.tools,
                            !.isError = response.isError,
                            !.upstream = response.upstream]

\* POST /mcp and POST / run the same chain: optionalAuth, the gate, the
\* router of createMCPRouter and the handler, whose upstream calls succeed
\* or fail.  Nothing but the response changes.
McpPost(route, h, request) ==
  /\ \E auth \in {reqAuth(h)} :
       resp' \in {McpAnswer(route, request, auth, ok) : ok \in BOOLEAN}
  /\ UNCHANGED <<sessions, nextSession, authCodes, nextCode, now, ticks,
                 cb, jwts, redeemLog, origin, readOnly, api>>

\* The query strings a callback can arrive with, besides state: an upstream
\* code, nothing, or an upstream-reported error with or without a
\* description (an accompanying code is never looked at).
CallbackQueries ==
  {[code |-> 1, error |-> "", error_description |-> ""],
   [code |-> 0, error |-> "", error_description |-> ""],
   [code |-> 0, error |-> "server_error", error_description |-> ""],
   [code |-> 0, error |-> "server_error",
    error_description |-> "upstream failed"]}

\* The bodies POST /token can arrive with: another grant type, no code, or
\* a code with or without a verifier.
TokenRequests ==
  {[grant_type |-> "refresh_token", code |-> 0, code_verifier |-> 0],
   [grant_type |-> "authorization_code", code |-> 0, code_verifier |-> 0]}
  \cup [grant_type : {"authorization_code"}, code : CodeIds,
        code_verifier : {0} \cup Verifiers]

\* The tools a tools/call request names: two that read, two that write
\* and a name outside the catalog.
RequestTools ==
  {"tanda_get_current_user", "tanda_get_teams", "tanda_create_schedule",
   "tanda_invite_user", "tanda_unknown"}

\* The bodies POST /mcp and POST / can arrive with: every method of the
\* handler without parameters, one it does not know, none; tools/call for
\* the tools above; resources/read for a resource and for an unknown one;
\* and bodies that are not JSON-RPC 2.0.
McpRequests ==
  {McpRequest("2.0", m, "", "") :
     m \in {"initialize", "tools/list", "tools/call", "resources/list",
            "resources/read", "prompts/list", "ping", "unknown/method", ""}}
  \cup {McpRequest("2.0", "tools/call", n, "") :
          n \in RequestTools}
  \cup {McpRequest("2.0", "resources/read", "", u) :
          u \in {"tanda://organization/info", "tanda://unknown"}}
  \cup {McpRequest(v, m, "", "") :
          v \in {"", "1.0"}, m \in {"initialize", "tools/list"}}

McpRoutes == {"/mcp", "/"}

\* The headers those requests carry: none, a token the server issued, a
\* forged one, and an issued token under another scheme.
McpHeaders ==
  {h \in AuthHeaders :
     \/ h = NoHeader
     \/ h.scheme = "Bearer" /\ h.parts = 2 /\ h.token # NoToken
     \/ h.scheme = "Basic"}

BearerTokens == {jwts[s] : s \in SessionIds} \cup {NoToken, ForgedToken}

Next ==
  \/ \E uri \in {0} \cup RedirectUris, cs \in {0} \cup ClientStates,
        ch \in {0} \cup Challenges : Authorize(uri, cs, ch)
  \/ AuthLogin
  \/ \E q \in CallbackQueries, state \in StateParams,
        cookie \in 0..MaxSessions :
       AuthCallback(q.code, state, q.error, q.error_description, cookie)
  \/ \E r \in BagToSet(cb), ok \in BOOLEAN, grant \in Users :
       ExchangeDone(r, ok, grant)
  \/ \E r \in BagToSet(cb), ok \in BOOLEAN : UserDone(r, ok)
  \/ \E q \in TokenRequests : Token(q.grant_type, q.code, q.code_verifier)
  \/ \E token \in BearerTokens : requireAuth(token)
  \/ \E h \in AuthHeaders : optionalAuth(extractBearerToken(h))
  \/ \E token \in BearerTokens, cookie \in 0..MaxSessions :
       AuthLogout(token, cookie)
  \/ Tick
  \/ SweepAuthCodes
  \/ SweepSessions

Spec == Init /\ [][Next]_vars

\* The protocol gateway in front of the broker: the process starts with
\* any value of MCP_READ_ONLY_MODE in its environment, a user signs in
\* through the browser flow (the callback comes back with a code, with the
\* state the server drew or none, with or without the cookie; the upstream
\* calls succeed or fail) and signs out, time passes, sessions are swept,
\* and clients post JSON-RPC requests.
McpInit ==
  /\ sessions = [s \in SessionKeys |-> Absent]
  /\ nextSession = 0
  /\ authCodes = [c \in CodeIds |-> Absent]
  /\ nextCode = 0
  /\ now = 0
  /\ ticks = 0
  /\ cb = EmptyBag
  /\ jwts = [s \in SessionIds |-> NoToken]
  /\ resp = NoResp
  /\ redeemLog = [c \in CodeIds |-> <<>>]
  /\ origin = [s \in SessionKeys |-> ClientParams(0, 0, 0)]
  /\ \E val \in EnvValues : readOnly = MCP_READ_ONLY_MODE(val)
  /\ api = NoCall

McpNext ==
  \/ AuthLogin
  \/ \E state \in {NoState} \cup {NewState(k) : k \in SessionIds},
        cookie \in 0..MaxSessions :
       AuthCallback(1, state, "", "", cookie)
  \/ \E r \in BagToSet(cb), ok \in BOOLEAN :
       ExchangeDone(r, ok, 1)
  \/ \E r \in BagToSet(cb), ok \in BOOLEAN : UserDone(r, ok)
  \/ \E token \in BearerTokens, cookie \in 0..MaxSessions :
       AuthLogout(token, cookie)
  \/ Tick
  \/ SweepSessions
  \/ \E route \in McpRoutes, h \in McpHeaders, request \in McpRequests :
       McpPost(route, h, request)

McpSpec == McpInit /\ [][McpNext]_vars

\* ------------------------------------------------------------ TandaClient
\* The methods called on a handle: one that reads, one that writes.
ClientMethods == {"getCurrentUser", "createSchedule"}

\* What the upstream does with a request: a 2xx answer, a 401, another
\* error status, or no answer before the instance's 30 s timeout (0).
UpstreamStatuses == {200, 401, 500, 0}

\* A handler calls a method of the handle that getTandaClient built for
\* session sid: the constructor copies the session's tokens, and the
\* request interceptor sends the request with the handle's access token.
ClientRequest(sid, method) ==
  /\ api.pc = "idle"
  /\ getTandaClient(sid)
  /\ api' = [pc |-> "sent", sessionId |-> sid, method |-> method,
             accessToken |-> TandaClient(sid).accessToken,
             refreshToken |-> TandaClient(sid).refreshToken,
             tokenExpiresAt |->
               IF Truthy(TandaClient(sid).expiresIn)
               THEN now + TandaClient(sid).expiresIn * 1000 ELSE 0,
             statusCode |-> 0]
  /\ UNCHANGED <<sessions, nextSession, authCodes, nextCode, now, ticks, cb,
                 jwts, resp, redeemLog, origin, readOnly>>

\* handleApiError: the call ends by throwing TandaApiError with the status
\* of the response, or 500 when there was none.
handleApiError(status) ==
  [api EXCEPT !.pc = "thrown",
              !.statusCode = IF Truthy(status) THEN status ELSE 500]

\* The response interceptor of the instance, for the answer to the request
\* in flight: a 2xx is returned to the caller; a 401 while the handle has a
\* refresh token starts refreshAccessToken; everything else is thrown.
responseInterceptor(status) ==
  /\ api.pc = "sent"
  /\ api' = IF status = 200
            THEN [api EXCEPT !.pc = "returned", !.statusCode = 200]
            ELSE IF status = 401 /\ Truthy(api.refreshToken)
            THEN [api EXCEPT !.pc = "refresh"]
            ELSE handleApiError(status)
  /\ UNCHANGED <<sessions, nextSession, authCodes, nextCode, now, ticks, cb,
                 jwts, resp, redeemLog, origin, readOnly>>

\* refreshAccessToken settles.  On success the handle takes the tokens of
\* the answer (refresh = 0: an answer without refresh_token) and the
\* original request is sent again through the same instance, and so
\* through the same interceptors; on failure the catch block logs and the
\* original 401 is thrown.
refreshAccessToken(ok, access, refresh) ==
  /\ api.pc = "refresh"
  /\ api' = IF ok
            THEN [api EXCEPT !.pc = "sent", !.accessToken = access,
                             !.refreshToken = refresh,
                             !.tokenExpiresAt =
                               now + UpstreamExpiresIn * 1000]
            ELSE handleApiError(401)
  /\ UNCHANGED <<sessions, nextSession, authCodes, nextCode, now, ticks, cb,
                 jwts, resp, redeemLog, origin, readOnly>>

\* The caller's await ends with the response or the error; the handle is
\* dropped with the request.
ClientSettled ==
  /\ api.pc \in {"returned", "thrown"}
  /\ api' = NoCall
  /\ UNCHANGED <<sessions, nextSession, authCodes, nextCode, now, ticks, cb,
                 jwts, resp, redeemLog, origin, readOnly>>

\* The upstream answers the request in flight, or the request times out.
UpstreamResponds ==
  \E status \in UpstreamStatuses : responseInterceptor(status)

\* The token endpoint answers the refresh, or the refresh fails.
RefreshSettles ==
  \E ok \in BOOLEAN, access \in Users, refresh \in {0} \cup Users :
    refreshAccessToken(ok, access, refresh)

\* The API client at work: a user signs in through the browser flow, time
\* passes, and handlers call the upstream through the session's handle.
ClientNext ==
  \/ AuthLogin
  \/ \E state \in {NoState} \cup {NewState(k) : k \in SessionIds},
        cookie \in 0..MaxSessions :
       AuthCallback(1, state, "", "", cookie)
  \/ \E r \in BagToSet(cb), ok \in BOOLEAN, grant \in Users :
       ExchangeDone(r, ok, grant)
  \/ \E r \in BagToSet(cb), ok \in BOOLEAN : UserDone(r, ok)
  \/ Tick
  \/ \E sid \in SessionIds, method \in ClientMethods :
       ClientRequest(sid, method)
  \/ UpstreamResponds
  \/ RefreshSettles
  \/ ClientSettled

\* Every request sent is answered or times out (the instance's timeout),
\* and every refresh settles: the upstream is slow or failing, never
\* silent for ever.  What it answers is not constrained.
ClientSpec ==
  /\ Init
  /\ [][ClientNext]_vars
  /\ WF_vars(UpstreamResponds)
  /\ WF_vars(RefreshSettles)

\* ======================================================= the claims
\* C1: over any interleaving of redemption attempts on one authorization
\* code, at most one attempt returns a bearer credential, and it is the
\* first attempt made on the code.
FirstRedeemerWins ==
  \A c \in CodeIds : \A i \in 1..Len(redeemLog[c]) :
    redeemLog[c][i] = "ok" => i = 1

\* Several attempts were made on a code and the first one won.
FirstRedeemerWinsWitness ==
  \E c \in CodeIds : Len(redeemLog[c]) >= 2 /\ redeemLog[c][1] = "ok"

\* C2: when the client gave a code_challenge at /authorize, a redemption
\* with a mismatched or missing code_verifier issues no credential.
PkceEnforced ==
  (/\ resp.route = "token"
   /\ resp.status = 200
   /\ sessions[resp.token.sessionId].present
   /\ Truthy(sessions[resp.token.sessionId].clientCodeChallenge))
  => (/\ Truthy(resp.verifier)
      /\ S256(resp.verifier) =
           sessions[resp.token.sessionId].clientCodeChallenge)

\* A callback response that reports the given handleCallback error, as a
\* redirect to the downstream client or as local JSON.
ReportsError(r, msg) ==
  /\ r.route = "callback"
  /\ \/ r.kind = "json" /\ r.status = 400 /\ r.error = msg
     \/ r.kind = "redirect" /\ r.params.error = "access_denied"
        /\ r.params.error_description = msg

\* A callback response that reports success for session s: the bearer
\* token of a direct flow or the redirect with an authorization code.
ReportsSuccess(r, s) ==
  /\ r.route = "callback"
  /\ r.sessionId = s
  /\ \/ r.kind = "json" /\ r.status = 200
     \/ r.kind = "redirect" /\ Truthy(r.params.code)

\* C3: for a session with any fields, handleCallback with a returnedState
\* other than the session's stored state returns failure, starts no
\* upstream exchange and leaves the session record unchanged.
CsrfMismatchRejected ==
  /\ [](\A state \in StateParams, cookie \in 0..MaxSessions :
          LET sid == ResolveSessionId(state, cookie)
              out == CallbackArrival(1, state, "", "", cookie)
          IN  (/\ Truthy(sid)
               /\ sessions[sid].present
               /\ sessions[sid].state # state)
              => (/\ out.await = ""
                  /\ ReportsError(out.resp,
                                  "State mismatch - possible CSRF attack")
                  /\ out.resp.sessionId = sid))
  /\ [][(/\ resp' # resp
         /\ ReportsError(resp', "State mismatch - possible CSRF attack"))
        => UNCHANGED <<sessions, cb>>]_vars

\* A state mismatch was reported for a session that holds credentials and
\* identity, and it still holds them.
CsrfMismatchRejectedWitness ==
  /\ ReportsError(resp, "State mismatch - possible CSRF attack")
  /\ Truthy(resp.sessionId)
  /\ sessions[resp.sessionId].present
  /\ Truthy(sessions[resp.sessionId].accessToken)
  /\ Truthy(sessions[resp.sessionId].user)

\* C4: once handleCallback has failed with a state mismatch for a session,
\* no later callback for that session succeeds.  Stated on consecutive
\* responses: the response that follows a mismatch failure for a session
\* is never a callback success for it.
CsrfMismatchIsFatal ==
  [][\A s \in SessionIds :
       (/\ ReportsError(resp, "State mismatch - possible CSRF attack")
        /\ resp.sessionId = s)
       => ~(resp' # resp /\ ReportsSuccess(resp', s))]_vars

\* C5: the callback mutation takes effect at most once per session: a
\* callback that completes for a session already holding credentials is
\* rejected, and stored credentials and identity are never overwritten.
CallbackMutatesOnce ==
  [][\A s \in SessionIds :
       (sessions[s].present /\ Truthy(sessions[s].accessToken))
       => (/\ \A r \in BagToSet(cb) :
                (r.sessionId = s /\ r.mode = "session" /\ UserDone(r, TRUE))
                => ~ReportsSuccess(resp', s)
           /\ sessions'[s].present =>
                /\ sessions'[s].accessToken = sessions[s].accessToken
                /\ sessions'[s].refreshToken = sessions[s].refreshToken
                /\ sessions'[s].tokenExpiresAt = sessions[s].tokenExpiresAt
                /\ sessions'[s].userId = sessions[s].userId
                /\ sessions'[s].user = sessions[s].user)]_vars

RevokedSessionRejected ==
  [][\A token \in BearerTokens :
       (/\ token # NoToken
        /\ verifyJWT(token)
        /\ ~sessions[token.sessionId].present)
       => (/\ requireAuth(token)
                => (/\ resp'.status = 401
                    /\ resp'.kind = "json"
                    /\ ~resp'.attached)
           /\ optionalAuth(token)
                => (/\ resp'.kind = "next"
                    /\ ~resp'.attached))]_vars

\* requireAuth has turned away a token that still verifies and whose
\* session is gone from the store.
RevokedSessionRejectedWitness ==
  /\ resp.route = "requireAuth"
  /\ resp.status = 401
  /\ resp.error = "Session expired or invalid"
  /\ Truthy(resp.sessionId)
  /\ ~sessions[resp.sessionId].present
  /\ verifyJWT(jwts[resp.sessionId])

\* C8: an authorization code is created only by a callback that succeeded
\* for a session that carries a downstream redirect URI: never by a
\* successful callback of a direct flow, by a failed callback, or by any
\* other operation.
CodeOnlyFromClientCallback ==
  [][\A c \in CodeIds :
       (authCodes'[c].present /\ ~authCodes[c].present)
       => \E r \in BagToSet(cb) :
            /\ UserDone(r, TRUE)
            /\ r.mode = "session"
            /\ Truthy(r.clientRedirectUri)
            /\ r.clientRedirectUri = origin[r.sessionId].redirectUri
            /\ authCodes'[c].sessionId = r.sessionId
            /\ ReportsSuccess(resp', r.sessionId)
            /\ resp'.kind = "redirect"
            /\ resp'.params.code = c]_vars

\* A code is in the store and the callback redirect that handed it out is
\* the latest response.
CodeOnlyFromClientCallbackWitness ==
  /\ resp.route = "callback"
  /\ resp.kind = "redirect"
  /\ Truthy(resp.params.code)
  /\ authCodes[resp.params.code].present
  /\ authCodes[resp.params.code].sessionId = resp.sessionId

\* C9: the client's redirectUri, state and codeChallenge of a session stay
\* as /authorize received them for as long as the session is in the store,
\* and the redirect after a successful callback goes to that redirectUri
\* with that state.
ClientParamsPreserved ==
  /\ \A s \in SessionIds :
       sessions[s].present
       => (/\ sessions[s].clientRedirectUri = origin[s].redirectUri
           /\ sessions[s].clientState = origin[s].state
           /\ sessions[s].clientCodeChallenge = origin[s].codeChallenge)
  /\ (/\ resp.route = "callback"
      /\ resp.kind = "redirect"
      /\ Truthy(resp.params.code))
     => (/\ resp.location = origin[resp.sessionId].redirectUri
         /\ resp.params.state = origin[resp.sessionId].state)

\* The success redirect of a session that was given a state and a code
\* challenge at /authorize and now holds credentials and identity.
ClientParamsPreservedWitness ==
  /\ resp.route = "callback"
  /\ resp.kind = "redirect"
  /\ Truthy(resp.params.code)
  /\ Truthy(resp.params.state)
  /\ sessions[resp.sessionId].present
  /\ Truthy(sessions[resp.sessionId].clientCodeChallenge)
  /\ Truthy(sessions[resp.sessionId].user)

\* A redirect to uri that carries the client's state cs and an error.
IsErrorRedirect(r, uri, cs) ==
  /\ r.route = "callback"
  /\ r.kind = "redirect"
  /\ r.status = 302
  /\ r.location = uri
  /\ r.params.state = cs
  /\ ~Truthy(r.params.code)
  /\ NonEmpty(r.params.error)

SessionFromStateFirst ==
  \A q \in CallbackQueries, state \in StateParams,
     cookie \in 0..MaxSessions :
    LET out == CallbackArrival(q.code, state, q.error,
                               q.error_description, cookie)
        decoded == decodeStateSessionId(state)
    IN  /\ (state # NoState /\ Truthy(decoded))
           => (/\ out.sessionId = decoded
               /\ out.clientRedirectUri = getClientParams(decoded).redirectUri)
        /\ (state # NoState /\ ~Truthy(decoded))
           => out.sessionId = cookie
        /\ state = NoState
           => (/\ out.sessionId = 0
               /\ ~Truthy(out.clientRedirectUri)
               /\ out.await # "session")
        /\ out.await = "" => out.resp.sessionId = out.sessionId

\* A callback was answered for the session id its state carried, which
\* names no session, while the session a cookie can name is in the store.
SessionFromStateFirstWitness ==
  /\ resp.route = "callback"
  /\ resp.sessionId = StaleId
  /\ resp.error = "Invalid or expired session"
  /\ \E s \in SessionIds : sessions[s].present

\* C12: in a direct flow (a session with no downstream client) a callback
\* with the matching state whose upstream exchange and identity fetch
\* succeed returns a bearer credential that carries the session's id and
\* the user id the callback stored in the session.
DirectFlowTokenClaims ==
  [][\A r \in BagToSet(cb) :
       (/\ r.mode = "session"
        /\ ~Truthy(origin[r.sessionId].redirectUri)
        /\ UserDone(r, TRUE))
       => (/\ resp'.route = "callback"
           /\ resp'.kind = "json"
           /\ resp'.status = 200
           /\ resp'.token # NoToken
           /\ resp'.token.sessionId = r.sessionId
           /\ Truthy(resp'.token.userId)
           /\ resp'.token.userId = r.accessToken
           /\ jwts'[r.sessionId] = resp'.token
           /\ (now' \div 1000) < resp'.token.exp
           /\ sessions'[r.sessionId].present
                => (/\ sessions'[r.sessionId].userId = resp'.token.userId
                    /\ sessions'[r.sessionId].user = resp'.token.userId))]_vars

\* The direct flow's answer: a credential for a session in the store that
\* holds the user id the credential carries.
DirectFlowTokenClaimsWitness ==
  /\ resp.route = "callback"
  /\ resp.kind = "json"
  /\ resp.status = 200
  /\ resp.token # NoToken
  /\ sessions[resp.token.sessionId].present
  /\ ~Truthy(sessions[resp.token.sessionId].clientRedirectUri)
  /\ sessions[resp.token.sessionId].userId = resp.token.userId

\* C13: POST /token with grant_type=authorization_code and a non-empty
\* code that is unknown, expired or already redeemed answers 400 with
\* error invalid_grant and issues no bearer credential.
DeadCodeIsInvalidGrant ==
  [][\A q \in TokenRequests :
       (/\ q.grant_type = "authorization_code"
        /\ Truthy(q.code)
        /\ \/ ~authCodes[q.code].present
           \/ authCodes[q.code].used
           \/ now - authCodes[q.code].createdAt > AUTH_CODE_TTL_MS
        /\ resp'.route = "token"
        /\ Token(q.grant_type, q.code, q.code_verifier))
       => (/\ resp'.status = 400
           /\ resp'.error = "invalid_grant"
           /\ NonEmpty(resp'.params.error_description)
           /\ resp'.token = NoToken
           /\ jwts' = jwts)]_vars

\* /token has turned away a code that was past its lifetime.
DeadCodeIsInvalidGrantWitness ==
  /\ resp.route = "token"
  /\ resp.status = 400
  /\ resp.error = "invalid_grant"
  /\ resp.params.error_description = "Authorization code expired"

ToolsListRequest == McpRequest("2.0", "tools/list", "", "")

InvalidBearer(token) ==
  /\ token # NoToken
  /\ \/ \A s \in SessionIds : jwts[s] # token
     \/ token.exp <= now \div 1000

\* C16: a request that presents an expired or otherwise invalid bearer
\* token is treated as unauthenticated, and for every method other than
\* initialize the gateway answers 401 with the WWW-Authenticate header
\* naming the protected-resource metadata, without reaching the
\* dispatcher or the upstream.
InvalidTokenIsChallenged ==
  /\ \A h \in McpHeaders :
       InvalidBearer(extractBearerToken(h))
       => \E auth \in {reqAuth(h)} :
            /\ ~auth.tandaClient
            /\ auth.bearer /\ ~auth.verified
            /\ \A route \in McpRoutes, request \in McpRequests :
                 request.method # "initialize"
                 => LET out == McpAnswer(route, request, auth, TRUE)
                    IN  /\ out.status = 401
                        /\ out.header = WWWAuthenticate
                        /\ out.error = "unauthorized"
                        /\ ~out.attached
                        /\ ~out.passed /\ ~out.dispatched
                        /\ out.rpc = "" /\ out.upstream = {}
  /\ (/\ resp.route \in McpRoutes
      /\ resp.bearer /\ ~resp.verified
      /\ resp.method # "initialize")
     => (/\ resp.status = 401
         /\ resp.header = WWWAuthenticate
         /\ ~resp.attached /\ ~resp.dispatched)

\* A request with a token was challenged while the token the server had
\* issued for a session still in the store had expired.
InvalidTokenIsChallengedWitness ==
  /\ resp.route \in McpRoutes
  /\ resp.method = "tools/call"
  /\ resp.status = 401
  /\ resp.header = WWWAuthenticate
  /\ resp.bearer /\ ~resp.verified
  /\ \E s \in SessionIds :
       /\ sessions[s].present /\ Truthy(sessions[s].accessToken)
       /\ jwts[s] # NoToken /\ jwts[s].exp <= now \div 1000

\* C17: with the read-only flag set, a tools/call for any operation of
\* WRITE_TOOLS is rejected before any upstream call, authenticated or not
\* (by the executor's read-only test, or by the gate's 401); the write set
\* holds every executor case that calls an upstream write method; and no
\* response ever recorded while the flag is set came from a request that
\* made the server invoke an upstream write method.
ReadOnlyBlocksWrites ==
  /\ \A t \in DOMAIN executorCases :
       executorCases[t] \in UpstreamWriteMethods => t \in WRITE_TOOLS
  /\ WRITE_TOOLS \subseteq tandaTools
  /\ readOnly
     => (/\ \A t \in WRITE_TOOLS, ok \in BOOLEAN :
              /\ executeTool(t, ok).upstream = {}
              /\ executeTool(t, ok).isError
         /\ \A h \in McpHeaders : \E auth \in {reqAuth(h)} :
            \A route \in McpRoutes, t \in WRITE_TOOLS, ok \in BOOLEAN :
              LET out == McpAnswer(route,
                                   McpRequest("2.0", "tools/call", t, ""),
                                   auth, ok)
              IN  /\ out.upstream = {}
                  /\ \/ out.status = 401 /\ ~out.dispatched
                     \/ /\ out.attached
                        /\ out.isError
                        /\ out.message = "not available in read-only mode"
         /\ resp.upstream \cap UpstreamWriteMethods = {}
         /\ (resp.method = "tools/call" /\ resp.tool \in WRITE_TOOLS)
              => resp.upstream = {})

\* In read-only mode an authenticated call of a write tool got as far as
\* the executor and was refused there.
ReadOnlyBlocksWritesWitness ==
  /\ readOnly
  /\ resp.route \in McpRoutes
  /\ resp.method = "tools/call"
  /\ resp.tool \in WRITE_TOOLS
  /\ resp.attached /\ resp.dispatched
  /\ resp.isError
  /\ resp.message = "not available in read-only mode"
  /\ resp.upstream = {}

Degrades(h) ==
  \/ h = NoHeader
  \/ h.parts # 2
  \/ h.scheme \notin {"Bearer", "bearer", "BEARER"}
  \/ h.token = NoToken
  \/ InvalidBearer(h.token)
  \/ ~sessions[h.token.sessionId].present
  \/ ~Truthy(sessions[h.token.sessionId].accessToken)

\* C19: optionalAuth never rejects: whatever the Authorization header, it
\* answers nothing and calls next(); for a missing token, a malformed
\* header, an invalid or expired token, a missing session or a session
\* without upstream credentials it attaches no auth context, and it
\* changes nothing in the stores.
OptionalAuthNeverRejects ==
  [][resp'.route = "optionalAuth"
     => \A h \in AuthHeaders :
       optionalAuth(extractBearerToken(h))
       => (/\ resp'.kind = "next"
           /\ resp'.status = 0
           /\ resp'.error = ""
           /\ sessions' = sessions
           /\ Degrades(h) => (~resp'.attached /\ resp'.sessionId = 0)
           /\ ~Degrades(h) => (/\ resp'.attached
                               /\ resp'.sessionId = h.token.sessionId))]_vars

\* optionalAuth has passed on, without an auth context, a request while
\* the token issued for a stored session with credentials still verified:
\* the request's header was not that token under the Bearer scheme.
OptionalAuthNeverRejectsWitness ==
  /\ resp.route = "optionalAuth"
  /\ resp.kind = "next"
  /\ ~resp.attached
  /\ \E s \in SessionIds :
       /\ sessions[s].present /\ Truthy(sessions[s].accessToken)
       /\ verifyJWT(jwts[s])

\* C20: when a bearer token resolves to a session whose upstream
\* credentials have expired (tokenExpiresAt in the past), the middleware
\* refreshes them before it attaches the API handle, so that no handle
\* built from expired credentials is ever attached: the handle attached
\* to a request never has a negative number of seconds left.
NoExpiredHandleAttached ==
  resp.attached => resp.expiresIn >= 0

\* C21: a successful redemption removes the code's record from the code
\* store at once: in the state right after POST /token has answered 200
\* for a code, the store holds no record for it.
RedeemedCodeRemovedAtOnce ==
  [][\A c \in CodeIds :
       (/\ redeemLog'[c] # redeemLog[c]
        /\ resp'.route = "token"
        /\ resp'.status = 200)
       => ~authCodes'[c].present]_vars

\* A stored session that holds every upstream credential and the identity.
FullyAuthenticated(session) ==
  /\ Truthy(session.accessToken)
  /\ Truthy(session.refreshToken)
  /\ Truthy(session.tokenExpiresAt)
  /\ Truthy(session.userId)
  /\ Truthy(session.user)

\* A stored session that holds none of them.
Unauthenticated(session) ==
  /\ ~Truthy(session.accessToken)
  /\ ~Truthy(session.refreshToken)
  /\ ~Truthy(session.tokenExpiresAt)
  /\ ~Truthy(session.userId)
  /\ ~Truthy(session.user)

\* C22: a callback whose upstream token exchange or identity fetch fails
\* or times out leaves every session exactly as it was, and accessToken,
\* refreshToken, tokenExpiresAt, userId and user are set all together or
\* not at all: in every reachable state a stored session has upstream
\* credentials if and only if it has a user identity.
CallbackAllOrNothing ==
  /\ [](\A s \in SessionIds :
          sessions[s].present =>
            FullyAuthenticated(sessions[s]) \/ Unauthenticated(sessions[s]))
  /\ [][(/\ resp' # resp
          /\ ReportsError(resp', "Request failed"))
         => sessions' = sessions]_vars

\* An upstream failure was reported for a session that is still stored and
\* still holds neither credentials nor identity.
CallbackAllOrNothingWitness ==
  /\ ReportsError(resp, "Request failed")
  /\ Truthy(resp.sessionId)
  /\ sessions[resp.sessionId].present
  /\ Unauthenticated(sessions[resp.sessionId])

\* C23: when a session is removed from the store (by the TTL sweep or by
\* logout) while its callback waits on the upstream exchange, the callback
\* ends as a failure: it reports no success, hands out no bearer token and
\* issues no authorization code for the removed session.
RemovedSessionCallbackFails ==
  [][\A r \in BagToSet(cb) :
       (/\ r.mode = "session"
        /\ ~sessions[r.sessionId].present
        /\ cb' = cb (-) SetToBag({r}))
       => /\ ~ReportsSuccess(resp', r.sessionId)
          /\ jwts' = jwts
          /\ authCodes' = authCodes]_vars

\* C24: a session's createdAt is set once, at creation, and changed by no
\* operation; its expiry is absolute: whenever a stored session is older
\* than the session TTL the sweep is able to remove it, and neither using
\* the session nor an authorization code held for it postpones that.
CreatedAtIsAbsolute ==
  /\ [][\A s \in SessionIds :
          (sessions[s].present /\ sessions'[s].present)
          => sessions'[s].createdAt = sessions[s].createdAt]_vars
  /\ [](\A s \in SessionIds :
          (/\ sessions[s].present
           /\ now - sessions[s].createdAt > SESSION_TTL_MS)
          => ENABLED SweepSessions)

\* A session that was authenticated some time after its creation and has
\* an authorization code in the store is past its TTL, counted from its
\* creation.
CreatedAtIsAbsoluteWitness ==
  \E s \in SessionIds, c \in CodeIds :
    /\ sessions[s].present
    /\ FullyAuthenticated(sessions[s])
    /\ sessions[s].tokenExpiresAt
         > sessions[s].createdAt + UpstreamExpiresIn * 1000
    /\ authCodes[c].present
    /\ authCodes[c].sessionId = s
    /\ now - sessions[s].createdAt > SESSION_TTL_MS

\* C25: an authorization code older than the code TTL is never redeemed
\* successfully, even while the code sweep has not yet removed its record:
\* in every reachable state exchangeAuthCode refuses such a code without a
\* bearer token, with the expired error when the code is unused, and the
\* log of redemptions shows no success at a time past the code's lifetime.
ExpiredCodeNeverRedeemed ==
  /\ [](\A c \in CodeIds :
          (/\ authCodes[c].present
           /\ now - authCodes[c].createdAt > AUTH_CODE_TTL_MS)
          => /\ ~exchangeAuthCode(c).success
             /\ exchangeAuthCode(c).accessToken = NoToken
             /\ ~authCodes[c].used
                  => exchangeAuthCode(c).error = "Authorization code expired")
  /\ [][\A c \in CodeIds :
          (/\ authCodes[c].present
           /\ now - authCodes[c].createdAt > AUTH_CODE_TTL_MS
           /\ redeemLog'[c] # redeemLog[c])
          => /\ redeemLog'[c][Len(redeemLog'[c])] # "ok"
             /\ jwts' = jwts
             /\ resp'.status = 400]_vars

\* An unused code that outlived its TTL in the store, unswept, was offered
\* for redemption and turned away as expired on its first attempt.
ExpiredCodeNeverRedeemedWitness ==
  \E c \in CodeIds :
    /\ redeemLog[c] = <<"Authorization code expired">>
    /\ resp.route = "token"
    /\ resp.code = c
    /\ resp.token = NoToken
    /\ ~authCodes[c].present

\* C26: each run of the session sweep removes every session whose age
\* exceeds the session TTL and removes no session whose age does not,
\* whether or not the session is authenticated or was used; the sessions
\* it keeps are left as they were.  A sweep is the step that changes the
\* session store without a request being answered or a callback moving
\* (a logout answered in the words of the answer before it is still a
\* request).
SweepRemovesExactlyExpired ==
  [][(/\ sessions' # sessions
      /\ resp' = resp
      /\ cb' = cb
      /\ ~\E token \in BearerTokens, cookie \in 0..MaxSessions :
             AuthLogout(token, cookie))
     => \A s \in SessionKeys :
          IF sessions[s].present
             /\ now - sessions[s].createdAt > SESSION_TTL_MS
          THEN ~sessions'[s].present
          ELSE sessions'[s] = sessions[s]]_vars

\* The sweep has removed an authenticated session that was in use: the
\* last request answered is one that requireAuth let through with the
\* session's API handle, and the session is gone without a logout having
\* been answered since.
SweepRemovesExactlyExpiredWitness ==
  /\ resp.route = "requireAuth"
  /\ resp.attached
  /\ Truthy(resp.sessionId)
  /\ ~sessions[resp.sessionId].present

\* C27: resolving authentication (extractBearerToken, requireAuth,
\* optionalAuth and the API handle they attach) never adds a session to the
\* store and never removes one: a step that answers as requireAuth or
\* optionalAuth leaves every session stored or absent as it was, and with
\* the same contents.
AuthResolutionKeepsStore ==
  [][(/\ resp' # resp
      /\ resp'.route \in {"requireAuth", "optionalAuth"})
     => /\ \A s \in SessionKeys : sessions'[s].present = sessions[s].present
        /\ sessions' = sessions
        /\ nextSession' = nextSession]_vars

\* Authentication was resolved against a stored session whose upstream
\* access token is past its lifetime, so that the attached API handle will
\* refresh on use: the handle is attached and the session is still stored.
AuthResolutionKeepsStoreWitness ==
  /\ resp.route \in {"requireAuth", "optionalAuth"}
  /\ Truthy(resp.sessionId)
  /\ sessions[resp.sessionId].present
  /\ resp.attached
  /\ resp.expiresIn < 0

\* C28: in a delegated flow the bearer credential is never part of the
\* callback's response: the callback of a session that /authorize created
\* with a redirect_uri answers with a redirect that carries no token, on
\* success exactly the new authorization code and the client's state, to
\* the client's redirect_uri; a bearer token for such a session is handed
\* out only by a successful POST /token.
DelegatedTokenOnlyByRedemption ==
  /\ [][\A r \in BagToSet(cb) :
          (/\ Truthy(r.clientRedirectUri)
           /\ cb' = cb (-) SetToBag({r})
           /\ resp'.route = "callback")
          => /\ resp'.token = NoToken
             /\ jwts' = jwts
             /\ resp'.kind = "redirect"
             /\ resp'.location = r.clientRedirectUri
             /\ Truthy(resp'.params.code)
                  => resp'.params = [NoParams EXCEPT
                                       !.code = nextCode',
                                       !.state = r.clientState]]_vars
  /\ [][\A s \in SessionIds :
          (/\ Truthy(origin[s].redirectUri)
           /\ jwts'[s] # jwts[s])
          => /\ resp'.route = "token"
             /\ resp'.status = 200
             /\ resp'.token = jwts'[s]]_vars

\* The client of a delegated flow holds a bearer token, which /token gave
\* it for the code the callback's redirect carried.
DelegatedTokenOnlyByRedemptionWitness ==
  /\ resp.route = "token"
  /\ resp.status = 200
  /\ resp.token # NoToken
  /\ Truthy(origin[resp.token.sessionId].redirectUri)
  /\ jwts[resp.token.sessionId] = resp.token
  /\ redeemLog[resp.code] = <<"ok">>

\* The attempts logged for code c include one refused for want of a
\* session.
SessionNotFoundLogged(c) ==
  \E i \in 1..Len(redeemLog[c]) : redeemLog[c][i] = "Session not found"

\* C29: redeeming an unused, unexpired authorization code whose session is
\* missing from the store or has no user identity fails with 'Session not
\* found', issues no bearer token and consumes the code: its record stays
\* in the store marked used, and no later attempt on that code succeeds.
OrphanCodeIsConsumed ==
  /\ [](\A c \in CodeIds :
          (/\ authCodes[c].present
           /\ ~authCodes[c].used
           /\ now - authCodes[c].createdAt <= AUTH_CODE_TTL_MS
           /\ \/ ~sessions[authCodes[c].sessionId].present
              \/ ~Truthy(sessions[authCodes[c].sessionId].user))
          => /\ ~exchangeAuthCode(c).success
             /\ exchangeAuthCode(c).error = "Session not found"
             /\ exchangeAuthCode(c).accessToken = NoToken
             /\ exchangeAuthCode(c).authCodes[c].present
             /\ exchangeAuthCode(c).authCodes[c].used)
  /\ [][\A c \in CodeIds :
          (/\ SessionNotFoundLogged(c)
           /\ redeemLog'[c] # redeemLog[c])
          => /\ redeemLog'[c][Len(redeemLog'[c])] # "ok"
             /\ resp'.token = NoToken
             /\ jwts' = jwts]_vars

\* A code whose session had been removed was refused for want of a
\* session and, offered again within its lifetime, refused as used.
OrphanCodeIsConsumedWitness ==
  \E c \in CodeIds :
    /\ redeemLog[c] =
         <<"Session not found", "Authorization code already used">>
    /\ now - AUTH_CODE_TTL_MS <= 0
    /\ resp.route = "token"
    /\ resp.status = 400

\* C30: every upstream API call made through a TandaClient handle
\* eventually completes, by returning a response or by throwing
\* TandaApiError: the refresh-and-retry after a 401 does not repeat
\* without bound.
EveryCallCompletes ==
  (api.pc = "sent") ~> (api.pc \in {"returned", "thrown"})
====
